---- MODULE Spec2Model ----
(***************************************************************************)
(* Model of TorrentDownloader.DownloadFromMagnet (downloader.go): one      *)
(* fetch, from AddMagnet through the metadata select to the progress loop, *)
(* together with its environment: the caller's context, the torrent's      *)
(* GotInfo channel, the time.After timer, the progress ticker and the      *)
(* clock.                                                                  *)
(*                                                                         *)
(* A Go select with several ready cases picks one of them at random, so    *)
(* each case is its own action, enabled whenever its channel is ready.     *)
(* float64 values are kept exact: a finite value is the fraction n/d, and  *)
(* the IEEE results of dividing by zero (NaN, +Inf, -Inf) are values of    *)
(* their own.  Times are whole seconds.                                    *)
(*                                                                         *)
(* A goroutine that finds no case of its select ready parks, and the first *)
(* channel operation that arrives then decides the case it resumes with.   *)
(***************************************************************************)
EXTENDS Integers, Sequences, FiniteSets, TLC

\* ------------------------------------------------------------------ bounds
\* Torrent lengths and byte counts are multiples of 1000 up to 1000 * MaxKB.
MaxKB == 2
\* Seconds the clock may advance after the transfer has started.
MaxTime == 3

\* --------------------------------------------------------------- constants
\* time.After(2 * time.Minute), in seconds.
MetadataTimeout == 120
\* time.NewTicker(1 * time.Second), in seconds.
TickPeriod == 1

ByteValues == {0} \cup {1000 * k : k \in 1..MaxKB}
DownloadPaths == {"/downloads", "~/Downloads"}
\* Torrent layouts: info.Name and len(info.Files), which is 0 for a single-file
\* torrent and the number of inner files for a multi-file one.
Layouts == {[Name |-> "ubuntu.iso", Files |-> 0],
            [Name |-> "pack", Files |-> 2],
            [Name |-> "pack", Files |-> 3]}
\* Values of len(t.PeerConns()): none, and cfg.EstablishedConnsPerTorrent.
PeerCounts == {0, 31}

\* ------------------------------------------------------------ float64 model
Fin(n, d) == [k |-> "fin", n |-> n, d |-> d]
NaN == [k |-> "NaN", n |-> 0, d |-> 1]
PosInf == [k |-> "+Inf", n |-> 0, d |-> 1]
NegInf == [k |-> "-Inf", n |-> 0, d |-> 1]

\* float64(a) / float64(b): Go does not panic on a float division by zero.
FloatDiv(a, b) ==
    IF b # 0 THEN Fin(a, b)
    ELSE IF a > 0 THEN PosInf
    ELSE IF a < 0 THEN NegInf
    ELSE NaN

\* f * c for an integer c > 0.
FloatMul(f, c) == IF f.k = "fin" THEN Fin(f.n * c, f.d) ELSE f

\* Comparisons of float64 values; every comparison with NaN is false.
FloatLeq(f, g) ==
    CASE f.k = "NaN" \/ g.k = "NaN" -> FALSE
      [] f.k = "-Inf" \/ g.k = "+Inf" -> TRUE
      [] f.k = "+Inf" \/ g.k = "-Inf" -> FALSE
      [] OTHER -> IF f.d * g.d > 0 THEN f.n * g.d <= g.n * f.d
                                   ELSE f.n * g.d >= g.n * f.d
FloatEqInt(f, c) == f.k = "fin" /\ f.n = c * f.d

\* -------------------------------------------------------------- the program
VARIABLES
    pc,             \* position in DownloadFromMagnet: join, await, loop, done
    downloadPath,   \* td.downloadPath
    hasCallback,    \* progressCallback != nil
    ctxDone,        \* ctx.Done() is closed
    handleOpen,     \* the torrent t is held by the client: added, and neither
                    \* dropped nor released by closing the client
    joinCalls,      \* number of calls of client.AddMagnet
    gotInfo,        \* t.GotInfo() is closed
    info,           \* t.Info() and t.Length(): [Name, Files, Length]
    waited,         \* seconds since time.After was called
    timerFired,     \* the time.After channel holds a value
    downloadAll,    \* number of calls of t.DownloadAll
    tickerOn,       \* progressTicker is running
    tickPending,    \* progressTicker.C holds a value (buffer of one)
    nextTick,       \* time of the ticker's next firing
    now,            \* clock, in seconds since line 100
    lastBytes,      \* lastBytes
    lastTime,       \* lastTime
    ticks,          \* number of ticks processed by the loop
    sinkCalls,      \* number of calls of progressCallback
    snaps,          \* the ProgressInfo values of its last two calls
    sample,         \* what the last processed tick read from the transport
    result,         \* returned path
    err,            \* returned error
    outcomes,       \* number of times the function has returned
    cancelAt,       \* where the fetch was when ctx was cancelled
    sel             \* the goroutine at its select: "running" (not blocked),
                    \* "parked" (blocked, no case ready), or the case that
                    \* woke it: "info", "done", "timeout", "tick"

\* Several concurrent calls of DownloadFromMagnet.
VARIABLES
    calls,          \* per call: its downloader, magnet, ctx, position, result
    torrents        \* per client and magnet: the torrent the client holds

\* The GUI of main.go.
VARIABLES
    searchResult,   \* var searchResult SearchResults
    uiQueue,        \* callbacks handed to DoFromGoroutine, not yet run
    downloads,      \* one record per goroutine started by a Download button
    searching,      \* search goroutines that have not returned yet
    searchCount,    \* searches started so far
    listGen,        \* how many times searchResult has been assigned
    lastRaw,        \* the API response behind the current searchResult
    panicked        \* the UI thread indexed past the end of Results

vars == <<pc, downloadPath, hasCallback, ctxDone, handleOpen, joinCalls,
          gotInfo, info, waited, timerFired, downloadAll, tickerOn,
          tickPending, nextTick, now, lastBytes, lastTime, ticks, sinkCalls,
          snaps, sample, result, err, outcomes, cancelAt, sel,
          calls, torrents,
          searchResult, uiQueue, downloads, searching, searchCount, listGen,
          lastRaw, panicked>>

\* The variables of the other models of this module, which the steps of one
\* fetch leave alone.
concVars == <<calls, torrents>>
guiVars == <<searchResult, uiQueue, downloads, searching, searchCount,
             listGen, lastRaw, panicked>>
outside == <<concVars, guiVars>>

ctl == <<downloadPath, hasCallback>>
handle == <<handleOpen, joinCalls>>
meta == <<gotInfo, info>>
timer == <<waited, timerFired>>
ticker == <<tickerOn, tickPending, nextTick>>
loopv == <<lastBytes, lastTime, ticks, sinkCalls, snaps, sample>>
ret == <<result, err, outcomes>>

NoInfo == [Name |-> "", Files |-> 0, Length |-> 0]
NoCancel == [pc |-> "none", ticks |-> 0, gotInfo |-> FALSE, timerFired |-> FALSE,
             parked |-> FALSE]
NoSample == [bytes |-> 0, time |-> 0, prevBytes |-> 0, prevTime |-> 0,
             complete |-> FALSE]

\* No concurrent calls are being looked at.
ConcIdle ==
    /\ calls = <<>>
    /\ torrents = <<>>

\* var searchResult SearchResults: the zero value.
ZeroSearchResults == [Results |-> <<>>, Total |-> 0]

GuiIdle ==
    /\ searchResult = ZeroSearchResults
    /\ uiQueue = <<>>
    /\ downloads = <<>>
    /\ searching = 0
    /\ searchCount = 0
    /\ listGen = 0
    /\ lastRaw = <<>>
    /\ panicked = FALSE

Init ==
    /\ ConcIdle
    /\ GuiIdle
    /\ pc = "join"
    /\ downloadPath \in DownloadPaths
    /\ hasCallback \in BOOLEAN
    /\ ctxDone = FALSE
    /\ handleOpen = FALSE
    /\ joinCalls = 0
    /\ gotInfo = FALSE
    /\ info = NoInfo
    /\ waited = 0
    /\ timerFired = FALSE
    /\ downloadAll = 0
    /\ tickerOn = FALSE
    /\ tickPending = FALSE
    /\ nextTick = 0
    /\ now = 0
    /\ lastBytes = 0
    /\ lastTime = 0
    /\ ticks = 0
    /\ sinkCalls = 0
    /\ snaps = <<>>
    /\ sample = NoSample
    /\ result = ""
    /\ err = "none"
    /\ outcomes = 0
    /\ cancelAt = NoCancel
    /\ sel = "running"

\* Return, reporting the outcome without leaving the function.
ReturnWithoutLeaving(path, e) ==
    /\ pc' = pc
    /\ result' = path
    /\ err' = e
    /\ outcomes' = outcomes + 1
    /\ tickerOn' = tickerOn

\* return path, e: the deferred progressTicker.Stop() runs when it is set.
Return(path, e) ==
    /\ pc' = "done"
    /\ result' = path
    /\ err' = e
    /\ outcomes' = outcomes + 1
    /\ tickerOn' = FALSE

\* A channel operation reaches the goroutine: parked, it wakes with case c.
Wake(c) == IF sel = "parked" THEN c ELSE sel

\* The select takes case c: picked among the ready cases when the goroutine
\* evaluates the select, or the case that woke it from parking.
Selects(c, ready) == (sel = "running" /\ ready) \/ sel = c

\* AddMagnetOk, starting the download before the metadata is known.
AddMagnetOkDownloadsAtOnce ==
    /\ pc = "join"
    /\ pc' = "await"
    /\ handleOpen' = TRUE
    /\ joinCalls' = joinCalls + 1
    /\ downloadAll' = downloadAll + 1
    /\ UNCHANGED <<ctl, ctxDone, meta, timer, ticker, now, loopv, ret,
                   cancelAt>>
    /\ UNCHANGED sel
    /\ UNCHANGED outside

\* td.client.AddMagnet(magnetLink) succeeds.
AddMagnetOk ==
    /\ pc = "join"
    /\ pc' = "await"
    /\ handleOpen' = TRUE
    /\ joinCalls' = joinCalls + 1
    /\ UNCHANGED <<ctl, ctxDone, meta, timer, downloadAll, ticker, now, loopv,
                   ret, cancelAt>>
    /\ UNCHANGED sel
    /\ UNCHANGED outside

\* AddMagnetErr, calling AddMagnet again after a failure.
AddMagnetErrRetries ==
    /\ pc = "join"
    /\ joinCalls' = joinCalls + 1
    /\ UNCHANGED <<pc, ctl, ctxDone, handleOpen, meta, timer, downloadAll,
                   ticker, now, loopv, ret, cancelAt>>
    /\ UNCHANGED sel
    /\ UNCHANGED outside

\* td.client.AddMagnet(magnetLink) fails: return "", "failed to add magnet".
AddMagnetErr ==
    /\ pc = "join"
    /\ joinCalls' = joinCalls + 1
    /\ Return("", "JoinError")
    /\ UNCHANGED <<ctl, ctxDone, handleOpen, meta, timer, downloadAll,
                   tickPending, nextTick, now, loopv, cancelAt>>
    /\ UNCHANGED sel
    /\ UNCHANGED outside

\* ---- environment: the caller, the swarm, the runtime's timers, the clock

\* The caller cancels ctx (the cancel() of main, downloader.go:159).
Cancel ==
    /\ pc # "done"
    /\ ~ctxDone
    /\ ctxDone' = TRUE
    /\ cancelAt' = [pc |-> pc, ticks |-> ticks, gotInfo |-> gotInfo,
                    timerFired |-> timerFired, parked |-> sel = "parked"]
    /\ UNCHANGED <<pc, ctl, handle, meta, timer, downloadAll, ticker, now,
                   loopv, ret>>
    /\ sel' = Wake("done")
    /\ UNCHANGED outside

\* The swarm delivers the torrent's metadata: t.GotInfo() is closed.
GotInfoResolves ==
    /\ pc = "await"
    /\ ~gotInfo
    /\ gotInfo' = TRUE
    /\ \E layout \in Layouts, length \in ByteValues :
          info' = [Name |-> layout.Name, Files |-> layout.Files,
                   Length |-> length]
    /\ UNCHANGED <<pc, ctl, ctxDone, handle, timer, downloadAll, ticker, now,
                   loopv, ret, cancelAt>>
    /\ sel' = Wake("info")
    /\ UNCHANGED outside

\* A second passes while the select of line 83 waits.
TockAwait ==
    /\ pc = "await"
    /\ waited < MetadataTimeout
    /\ waited' = waited + 1
    /\ UNCHANGED <<pc, ctl, ctxDone, handle, meta, timerFired, downloadAll,
                   ticker, now, loopv, ret, cancelAt>>
    /\ UNCHANGED sel
    /\ UNCHANGED outside

\* The timer of time.After(2 * time.Minute) expires.
TimerFires ==
    /\ pc = "await"
    /\ waited >= MetadataTimeout
    /\ ~timerFired
    /\ timerFired' = TRUE
    /\ UNCHANGED <<pc, ctl, ctxDone, handle, meta, waited, downloadAll, ticker,
                   now, loopv, ret, cancelAt>>
    /\ sel' = Wake("timeout")
    /\ UNCHANGED outside

\* A second passes during the transfer.
TockLoop ==
    /\ pc = "loop"
    /\ now < MaxTime
    /\ now' = now + 1
    /\ UNCHANGED <<pc, ctl, ctxDone, handle, meta, timer, downloadAll, ticker,
                   loopv, ret, cancelAt>>
    /\ UNCHANGED sel
    /\ UNCHANGED outside

\* progressTicker fires: a non-blocking send on its channel of capacity one,
\* so a tick that finds the channel full is dropped.
TickerFires ==
    /\ tickerOn
    /\ now >= nextTick
    /\ tickPending' = TRUE
    /\ nextTick' = nextTick + TickPeriod
    /\ UNCHANGED <<pc, ctl, ctxDone, handle, meta, timer, downloadAll, tickerOn,
                   now, loopv, ret, cancelAt>>
    /\ sel' = Wake("tick")
    /\ UNCHANGED outside

\* ---- the select of lines 83-90

\* The select finds no case ready and blocks.
ParkAwait ==
    /\ pc = "await"
    /\ sel = "running"
    /\ ~gotInfo /\ ~ctxDone /\ ~timerFired
    /\ sel' = "parked"
    /\ UNCHANGED <<pc, ctl, ctxDone, handle, meta, timer, downloadAll, ticker,
                   now, loopv, ret, cancelAt>>
    /\ UNCHANGED outside

\* case <-t.GotInfo(): then t.DownloadAll(), the ticker, lastBytes, lastTime.
SelectGotInfo ==
    /\ pc = "await"
    /\ Selects("info", gotInfo)
    /\ pc' = "loop"
    /\ downloadAll' = downloadAll + 1
    /\ tickerOn' = TRUE
    /\ tickPending' = FALSE
    /\ nextTick' = now + TickPeriod
    /\ lastBytes' = 0
    /\ lastTime' = now
    /\ waited' = 0
    /\ timerFired' = FALSE
    /\ UNCHANGED <<ctl, ctxDone, handle, meta, now, ticks, sinkCalls, snaps,
                   sample, ret, cancelAt>>
    /\ sel' = "running"
    /\ UNCHANGED outside

\* case <-ctx.Done(): return "", ctx.Err()
SelectCtxDone ==
    /\ pc = "await"
    /\ Selects("done", ctxDone)
    /\ Return("", "Cancelled")
    /\ UNCHANGED <<ctl, ctxDone, handle, meta, timer, downloadAll, tickPending,
                   nextTick, now, loopv, cancelAt>>
    /\ sel' = "running"
    /\ UNCHANGED outside

\* SelectTimeout, falling through to the download instead of returning.
SelectTimeoutFallsThrough ==
    /\ pc = "await"
    /\ Selects("timeout", timerFired)
    /\ pc' = "loop"
    /\ downloadAll' = downloadAll + 1
    /\ tickerOn' = TRUE
    /\ nextTick' = now + TickPeriod
    /\ UNCHANGED <<ctl, ctxDone, handle, meta, timer, tickPending, now, loopv,
                   ret, cancelAt>>
    /\ sel' = "running"
    /\ UNCHANGED outside

\* case <-time.After(2 * time.Minute): return "", timeout error
SelectTimeout ==
    /\ pc = "await"
    /\ Selects("timeout", timerFired)
    /\ Return("", "MetadataTimeout")
    /\ UNCHANGED <<ctl, ctxDone, handle, meta, timer, downloadAll, tickPending,
                   nextTick, now, loopv, cancelAt>>
    /\ sel' = "running"
    /\ UNCHANGED outside

\* ---- the loop of lines 103-145

\* filepath.Join(dir, name) for clean, non-empty dir and name.
Join(dir, name) == dir \o "/" \o name

\* percentDone := float64(bytesCompleted) / float64(totalBytes) * 100
PercentDone(bytesCompleted, totalBytes) ==
    FloatMul(FloatDiv(bytesCompleted, totalBytes), 100)

\* DownloadSpeed, taking every tick to be one ticker period long.
DownloadSpeedPerTick(bytesDownloaded, timeElapsed) ==
    FloatDiv(bytesDownloaded, TickPeriod)

\* downloadSpeed := float64(bytesDownloaded) / timeElapsed
DownloadSpeed(bytesDownloaded, timeElapsed) ==
    FloatDiv(bytesDownloaded, timeElapsed)

\* FinalPath, returning the download directory for a multi-file torrent.
FinalPathDirOnly(dir, inf) ==
    IF inf.Files = 0 THEN Join(dir, inf.Name)
    ELSE dir

\* The path returned at lines 132-139.
FinalPath(dir, inf) ==
    IF inf.Files = 0 THEN Join(dir, inf.Name)
    ELSE Join(dir, inf.Name)

\* CallbackCalls, reporting only the ticks on which the byte count moved.
CallbackCallsOnProgress(bytesCompleted) ==
    IF hasCallback /\ bytesCompleted # lastBytes THEN 1 ELSE 0

\* if progressCallback != nil { progressCallback(...) }: the number of calls
\* a tick makes.
CallbackCalls(bytesCompleted) == IF hasCallback THEN 1 ELSE 0

\* The select of line 104 finds no case ready and blocks.
ParkLoop ==
    /\ pc = "loop"
    /\ sel = "running"
    /\ ~tickPending /\ ~ctxDone
    /\ sel' = "parked"
    /\ UNCHANGED <<pc, ctl, ctxDone, handle, meta, timer, downloadAll, ticker,
                   now, loopv, ret, cancelAt>>
    /\ UNCHANGED outside

\* case <-progressTicker.C: one tick, reading bytesCompleted, the peer count
\* and the completion flag from the transport.
LoopTick ==
    /\ pc = "loop"
    /\ Selects("tick", tickPending)
    /\ \E bytesCompleted \in {v \in ByteValues : v <= info.Length},
          peers \in PeerCounts, complete \in BOOLEAN :
        LET currentTime == now
            totalBytes == info.Length
            percentDone == PercentDone(bytesCompleted, totalBytes)
            timeElapsed == currentTime - lastTime
            bytesDownloaded == bytesCompleted - lastBytes
            downloadSpeed == DownloadSpeed(bytesDownloaded, timeElapsed)
        IN  /\ tickPending' = FALSE
            /\ lastBytes' = bytesCompleted
            /\ lastTime' = currentTime
            /\ ticks' = ticks + 1
            /\ sinkCalls' = sinkCalls + CallbackCalls(bytesCompleted)
            /\ snaps' = IF CallbackCalls(bytesCompleted) = 1
                        THEN Append(IF Len(snaps) = 2 THEN Tail(snaps)
                                                      ELSE snaps,
                                 [tick |-> ticks + 1,
                                  PercentDone |-> percentDone,
                                  BytesCompleted |-> bytesCompleted,
                                  TotalBytes |-> totalBytes,
                                  PeersConnected |-> peers,
                                  DownloadSpeed |-> downloadSpeed])
                        ELSE snaps
            /\ sample' = [bytes |-> bytesCompleted, time |-> currentTime,
                          prevBytes |-> sample.bytes, prevTime |-> sample.time,
                          complete |-> complete]
            /\ IF complete
               THEN Return(FinalPath(downloadPath, info), "nil")
               ELSE UNCHANGED <<pc, ret, tickerOn>>
    /\ UNCHANGED <<ctl, ctxDone, handle, meta, timer, downloadAll, nextTick,
                   now, cancelAt>>
    /\ sel' = "running"
    /\ UNCHANGED outside

\* LoopCtxDone, looking at ctx only once a tick has arrived.
LoopCtxDoneAfterTick ==
    /\ pc = "loop"
    /\ tickPending
    /\ ctxDone
    /\ Return("", "Cancelled")
    /\ UNCHANGED <<ctl, ctxDone, handle, meta, timer, downloadAll, tickPending,
                   nextTick, now, loopv, cancelAt>>
    /\ sel' = "running"
    /\ UNCHANGED outside

\* LoopCtxDone, also giving up on a transfer that made no progress.
LoopCtxDoneOrStalled ==
    /\ pc = "loop"
    /\ \/ Selects("done", ctxDone)
       \/ ticks >= 2 /\ sample.bytes = sample.prevBytes
    /\ Return("", IF ctxDone THEN "Cancelled" ELSE "TransferStalled")
    /\ UNCHANGED <<ctl, ctxDone, handle, meta, timer, downloadAll, tickPending,
                   nextTick, now, loopv, cancelAt>>
    /\ sel' = "running"
    /\ UNCHANGED outside

\* case <-ctx.Done(): return "", ctx.Err()
LoopCtxDone ==
    /\ pc = "loop"
    /\ Selects("done", ctxDone)
    /\ Return("", "Cancelled")
    /\ UNCHANGED <<ctl, ctxDone, handle, meta, timer, downloadAll, tickPending,
                   nextTick, now, loopv, cancelAt>>
    /\ sel' = "running"
    /\ UNCHANGED outside

Next ==
    \/ AddMagnetOk
    \/ AddMagnetErr
    \/ Cancel
    \/ GotInfoResolves
    \/ TockAwait
    \/ TimerFires
    \/ TockLoop
    \/ TickerFires
    \/ ParkAwait
    \/ SelectGotInfo
    \/ SelectCtxDone
    \/ SelectTimeout
    \/ ParkLoop
    \/ LoopTick
    \/ LoopCtxDone

Spec == Init /\ [][Next]_vars

\* ------------------------------------------- concurrent calls, shared clients
\* Several calls of DownloadFromMagnet run at once, each on a TorrentDownloader
\* and for a magnet link.  A TorrentDownloader holds one torrent.Client, and
\* a client holds one torrent per magnet (info hash): AddMagnet returns the
\* torrent the client already has when the magnet was added before.  Timers
\* are reduced to whether they have fired.

\* Number of concurrent calls.
NFetch == 2
Fetches == 1..NFetch
Clients == {"td1", "td2"}
Magnets == {"magnet:a", "magnet:b"}
Handles == Clients \X Magnets
NoHandle == <<"", "">>

\* The variables of one fetch stand still while concurrent calls are modelled.
FetchIdle ==
    /\ pc = "idle"
    /\ downloadPath = ""
    /\ hasCallback = FALSE
    /\ ctxDone = FALSE
    /\ handleOpen = FALSE
    /\ joinCalls = 0
    /\ gotInfo = FALSE
    /\ info = NoInfo
    /\ waited = 0
    /\ timerFired = FALSE
    /\ downloadAll = 0
    /\ tickerOn = FALSE
    /\ tickPending = FALSE
    /\ nextTick = 0
    /\ now = 0
    /\ lastBytes = 0
    /\ lastTime = 0
    /\ ticks = 0
    /\ sinkCalls = 0
    /\ snaps = <<>>
    /\ sample = NoSample
    /\ result = ""
    /\ err = "none"
    /\ outcomes = 0
    /\ cancelAt = NoCancel
    /\ sel = "running"

fetchVars == <<pc, downloadPath, hasCallback, ctxDone, handleOpen, joinCalls,
               gotInfo, info, waited, timerFired, downloadAll, tickerOn,
               tickPending, nextTick, now, lastBytes, lastTime, ticks,
               sinkCalls, snaps, sample, result, err, outcomes, cancelAt, sel>>

NoTorrent == [open |-> FALSE, gotInfo |-> FALSE, downloading |-> FALSE,
              complete |-> FALSE]

ConcInit ==
    /\ FetchIdle
    /\ GuiIdle
    /\ calls \in [Fetches -> {[td |-> c, magnet |-> m, pc |-> "join",
                               ctxDone |-> FALSE, timerFired |-> FALSE,
                               handle |-> NoHandle, started |-> FALSE,
                               ticks |-> 0, err |-> "none"] :
                                   c \in Clients, m \in Magnets}]
    /\ torrents = [h \in Handles |-> NoTorrent]

\* t, err := td.client.AddMagnet(magnetLink), err == nil: the client's torrent
\* for that magnet, added now or already there.
ConcAddMagnetOk(f) ==
    LET h == <<calls[f].td, calls[f].magnet>>
    IN  /\ calls[f].pc = "join"
        /\ calls' = [calls EXCEPT ![f].pc = "await", ![f].handle = h]
        /\ torrents' = [torrents EXCEPT ![h].open = TRUE]
        /\ UNCHANGED <<fetchVars, guiVars>>

\* AddMagnet fails: return "", err.
ConcAddMagnetErr(f) ==
    /\ calls[f].pc = "join"
    /\ calls' = [calls EXCEPT ![f].pc = "done", ![f].err = "JoinError"]
    /\ UNCHANGED <<torrents, fetchVars, guiVars>>

\* The caller of call f cancels its ctx.
ConcCancel(f) ==
    /\ calls[f].pc # "done"
    /\ ~calls[f].ctxDone
    /\ calls' = [calls EXCEPT ![f].ctxDone = TRUE]
    /\ UNCHANGED <<torrents, fetchVars, guiVars>>

\* The time.After timer of call f expires.
ConcTimerFires(f) ==
    /\ calls[f].pc = "await"
    /\ ~calls[f].timerFired
    /\ calls' = [calls EXCEPT ![f].timerFired = TRUE]
    /\ UNCHANGED <<torrents, fetchVars, guiVars>>

\* The swarm delivers the metadata of an open torrent.
ConcGotInfo(h) ==
    /\ torrents[h].open
    /\ ~torrents[h].gotInfo
    /\ torrents' = [torrents EXCEPT ![h].gotInfo = TRUE]
    /\ UNCHANGED <<calls, fetchVars, guiVars>>

\* The swarm delivers the data of a torrent that is downloading.
ConcPieces(h) ==
    /\ torrents[h].downloading
    /\ ~torrents[h].complete
    /\ torrents' = [torrents EXCEPT ![h].complete = TRUE]
    /\ UNCHANGED <<calls, fetchVars, guiVars>>

\* case <-t.GotInfo(): t.DownloadAll() and on to the loop.
ConcSelectGotInfo(f) ==
    /\ calls[f].pc = "await"
    /\ torrents[calls[f].handle].gotInfo
    /\ calls' = [calls EXCEPT ![f].pc = "loop", ![f].started = TRUE]
    /\ torrents' = [torrents EXCEPT ![calls[f].handle].downloading = TRUE]
    /\ UNCHANGED <<fetchVars, guiVars>>

\* case <-ctx.Done() of either select: return "", ctx.Err()
ConcCtxDone(f) ==
    /\ calls[f].pc \in {"await", "loop"}
    /\ calls[f].ctxDone
    /\ calls' = [calls EXCEPT ![f].pc = "done", ![f].err = "Cancelled"]
    /\ UNCHANGED <<torrents, fetchVars, guiVars>>

\* case <-time.After(2 * time.Minute): return "", timeout error
ConcSelectTimeout(f) ==
    /\ calls[f].pc = "await"
    /\ calls[f].timerFired
    /\ calls' = [calls EXCEPT ![f].pc = "done", ![f].err = "MetadataTimeout"]
    /\ UNCHANGED <<torrents, fetchVars, guiVars>>

\* case <-progressTicker.C: one tick; return the path when t.Complete().
ConcLoopTick(f) ==
    /\ calls[f].pc = "loop"
    /\ calls[f].ticks < MaxTime
    /\ calls' = [calls EXCEPT
                    ![f].ticks = @ + 1,
                    ![f].pc = IF torrents[calls[f].handle].complete
                              THEN "done" ELSE @,
                    ![f].err = IF torrents[calls[f].handle].complete
                               THEN "nil" ELSE @]
    /\ UNCHANGED <<torrents, fetchVars, guiVars>>

ConcNext ==
    \/ \E f \in Fetches :
          \/ ConcAddMagnetOk(f)
          \/ ConcAddMagnetErr(f)
          \/ ConcCancel(f)
          \/ ConcTimerFires(f)
          \/ ConcSelectGotInfo(f)
          \/ ConcCtxDone(f)
          \/ ConcSelectTimeout(f)
          \/ ConcLoopTick(f)
    \/ \E h \in Handles :
          \/ ConcGotInfo(h)
          \/ ConcPieces(h)

ConcSpec == ConcInit /\ [][ConcNext]_vars

\* ------------------------------------------------------------------ the GUI
\* The window of main.go: one UI thread that runs the button handlers and the
\* callbacks handed to DoFromGoroutine, one goroutine per search and one per
\* download.  Indices into Results start at 1 here and at 0 in the source.

\* Rows of one API response, searches and downloads per run.
MaxResults == 2
MaxSearches == 2
MaxDownloads == 2

MagnetUris == {"", "magnet:a"}

\* A Result as json.Unmarshal builds it: the two flags are json:"-".
Entry(m) == [MagnetUri |-> m, IsDownloading |-> FALSE, IsDownloaded |-> FALSE]

\* The Results of the API responses.
RawResponses ==
    UNION {[1..n -> {Entry(m) : m \in MagnetUris}] : n \in 0..MaxResults}

\* fetchSearchResults, returning the response as the API sent it.
FetchSearchResultsUnfiltered(raw) ==
    [Results |-> raw, Total |-> Len(raw)]

\* fetchSearchResults on a response that parsed: lines 118-125.
FetchSearchResults(raw) ==
    LET curatedList == SelectSeq(raw, LAMBDA res : res.MagnetUri # "")
    IN  [Results |-> curatedList, Total |-> Len(curatedList)]

SearchCallback(failed, res, raw) ==
    [kind |-> "search", failed |-> failed, result |-> res, raw |-> raw,
     d |-> 0]

DoneCallback(d) ==
    [kind |-> "done", failed |-> FALSE, result |-> ZeroSearchResults,
     raw |-> <<>>, d |-> d]

GuiInit ==
    /\ FetchIdle
    /\ ConcIdle
    /\ GuiIdle

\* searchButton's handler with a non-empty query: start the goroutine.
TapSearch ==
    /\ ~panicked
    /\ searchCount < MaxSearches
    /\ searchCount' = searchCount + 1
    /\ searching' = searching + 1
    /\ UNCHANGED <<searchResult, uiQueue, downloads, listGen, lastRaw,
                   panicked, fetchVars, concVars>>

\* fetchSearchResults returns a list; the goroutine hands over its callback.
SearchReturnsOk ==
    /\ ~panicked
    /\ searching > 0
    /\ \E raw \in RawResponses :
          uiQueue' = Append(uiQueue,
                            SearchCallback(FALSE, FetchSearchResults(raw), raw))
    /\ searching' = searching - 1
    /\ UNCHANGED <<searchResult, downloads, searchCount, listGen, lastRaw,
                   panicked, fetchVars, concVars>>

\* fetchSearchResults returns SearchResults{}, err.
SearchReturnsErr ==
    /\ ~panicked
    /\ searching > 0
    /\ uiQueue' = Append(uiQueue, SearchCallback(TRUE, ZeroSearchResults, <<>>))
    /\ searching' = searching - 1
    /\ UNCHANGED <<searchResult, downloads, searchCount, listGen, lastRaw,
                   panicked, fetchVars, concVars>>

\* downloadButton.OnTapped of row id, shown and enabled by updateFunc.
TapDownload(id) ==
    /\ ~panicked
    /\ Len(downloads) < MaxDownloads
    /\ id <= searchResult.Total
    /\ id <= Len(searchResult.Results)
    /\ ~searchResult.Results[id].IsDownloaded
    /\ ~searchResult.Results[id].IsDownloading
    /\ searchResult' =
          [searchResult EXCEPT !.Results[id].IsDownloading = TRUE]
    /\ downloads' = Append(downloads,
                           [id |-> id,
                            magnet |-> searchResult.Results[id].MagnetUri,
                            gen |-> listGen, pc |-> "new", out |-> "",
                            mark |-> "none"])
    /\ UNCHANGED <<uiQueue, searching, searchCount, listGen, lastRaw,
                   panicked, fetchVars, concVars>>

\* downloader.NewTorrentDownloader("~/Downloads") succeeds.
DlNewDownloaderOk(d) ==
    /\ ~panicked
    /\ d <= Len(downloads)
    /\ downloads[d].pc = "new"
    /\ downloads' = [downloads EXCEPT ![d].pc = "fetch"]
    /\ UNCHANGED <<searchResult, uiQueue, searching, searchCount, listGen,
                   lastRaw, panicked, fetchVars, concVars>>

\* NewTorrentDownloader fails: log and return.
DlNewDownloaderErr(d) ==
    /\ ~panicked
    /\ d <= Len(downloads)
    /\ downloads[d].pc = "new"
    /\ downloads' = [downloads EXCEPT ![d].pc = "ended",
                                      ![d].out = "NoDownloader"]
    /\ UNCHANGED <<searchResult, uiQueue, searching, searchCount, listGen,
                   lastRaw, panicked, fetchVars, concVars>>

\* td.DownloadFromMagnet returns an error: log and return.
DlFetchErr(d) ==
    /\ ~panicked
    /\ d <= Len(downloads)
    /\ downloads[d].pc = "fetch"
    /\ \E e \in {"JoinError", "MetadataTimeout"} :
          downloads' = [downloads EXCEPT ![d].pc = "ended", ![d].out = e]
    /\ UNCHANGED <<searchResult, uiQueue, searching, searchCount, listGen,
                   lastRaw, panicked, fetchVars, concVars>>

\* td.DownloadFromMagnet returns the path: hand over the completion callback.
DlFetchOk(d) ==
    /\ ~panicked
    /\ d <= Len(downloads)
    /\ downloads[d].pc = "fetch"
    /\ downloads' = [downloads EXCEPT ![d].pc = "ended", ![d].out = "nil"]
    /\ uiQueue' = Append(uiQueue, DoneCallback(d))
    /\ UNCHANGED <<searchResult, searching, searchCount, listGen, lastRaw,
                   panicked, fetchVars, concVars>>

\* The UI thread runs the callback of a search that failed.
RunSearchFailed ==
    /\ ~panicked
    /\ uiQueue # <<>>
    /\ Head(uiQueue).kind = "search"
    /\ Head(uiQueue).failed
    /\ uiQueue' = Tail(uiQueue)
    /\ UNCHANGED <<searchResult, downloads, searching, searchCount, listGen,
                   lastRaw, panicked, fetchVars, concVars>>

\* The UI thread runs the callback of a search: searchResult = result.
RunSearchDone ==
    /\ ~panicked
    /\ uiQueue # <<>>
    /\ Head(uiQueue).kind = "search"
    /\ ~Head(uiQueue).failed
    /\ uiQueue' = Tail(uiQueue)
    /\ searchResult' = Head(uiQueue).result
    /\ lastRaw' = Head(uiQueue).raw
    /\ listGen' = listGen + 1
    /\ UNCHANGED <<downloads, searching, searchCount, panicked, fetchVars,
                   concVars>>

\* The UI thread runs the completion callback of download d: it writes
\* searchResult.Results[id] of the list of that moment.
RunDownloadDone ==
    /\ ~panicked
    /\ uiQueue # <<>>
    /\ Head(uiQueue).kind = "done"
    /\ uiQueue' = Tail(uiQueue)
    /\ LET d == Head(uiQueue).d
           id == downloads[d].id
       IN  IF id > Len(searchResult.Results)
           THEN /\ panicked' = TRUE
                /\ downloads' = [downloads EXCEPT ![d].mark = "panic"]
                /\ UNCHANGED searchResult
           ELSE /\ searchResult' =
                      [searchResult EXCEPT
                          !.Results[id].IsDownloading = FALSE,
                          !.Results[id].IsDownloaded = TRUE]
                /\ downloads' =
                      [downloads EXCEPT
                          ![d].mark = IF listGen = downloads[d].gen
                                      THEN "own" ELSE "other"]
                /\ UNCHANGED panicked
    /\ UNCHANGED <<searching, searchCount, listGen, lastRaw, fetchVars,
                   concVars>>

\* What the goroutines and the UI thread do without the user.
GuiRun ==
    \/ SearchReturnsOk
    \/ SearchReturnsErr
    \/ \E d \in 1..MaxDownloads :
          \/ DlNewDownloaderOk(d)
          \/ DlNewDownloaderErr(d)
          \/ DlFetchErr(d)
          \/ DlFetchOk(d)
    \/ RunSearchFailed
    \/ RunSearchDone
    \/ RunDownloadDone

GuiNext ==
    \/ TapSearch
    \/ \E id \in 1..MaxResults : TapDownload(id)
    \/ GuiRun

GuiSpec == GuiInit /\ [][GuiNext]_vars

\* The goroutines and the UI thread keep running.
GuiLive == GuiSpec /\ WF_vars(GuiRun)

\* ------------------------------------------------------------------ claims

Joined == joinCalls > 0 /\ err # "JoinError"
LastSnap == snaps[Len(snaps)]

\* C1: every run that joined the swarm has closed the swarm handle by the time
\* it returns, whatever the exit path.
C1_HandleClosedOnReturn ==
    (pc = "done" /\ Joined) => ~handleOpen

\* C2: a fetch produces at most one outcome, and exactly one once it has
\* returned; snapshots reach the sink in tick order, each before the outcome,
\* and nothing reaches the sink or changes the outcome afterwards.
C2_OneOutcomeAfterSnapshots ==
    /\ [](/\ outcomes <= 1
          /\ (pc = "done") <=> (outcomes = 1)
          /\ (outcomes = 0) <=> (err = "none")
          /\ sinkCalls <= ticks
          /\ \A i \in 1..Len(snaps) - 1 : snaps[i].tick < snaps[i + 1].tick)
    /\ [][/\ sinkCalls' # sinkCalls => outcomes = 0
          /\ outcomes >= 1 => UNCHANGED <<sinkCalls, snaps, ret>>]_vars

\* C2 witness: a fetch that succeeded after delivering two snapshots.
C2_Witness == pc = "done" /\ err = "nil" /\ sinkCalls = 2 /\ outcomes = 1

\* C3: once ctx is cancelled during the transfer, no further tick is processed
\* and the fetch ends Cancelled, also when a tick is pending at that moment.
C3_CancelStopsTransfer ==
    cancelAt.pc = "loop" =>
        /\ ticks = cancelAt.ticks
        /\ pc = "done" => err = "Cancelled"

\* C4: a cancellation that fires during the metadata wait, metadata not yet
\* resolved, ends the fetch Cancelled, with no DownloadAll and no snapshot.
C4_CancelDuringMetadataWait ==
    (cancelAt.pc = "await" /\ ~cancelAt.gotInfo) =>
        /\ downloadAll = 0
        /\ ticks = 0
        /\ sinkCalls = 0
        /\ pc = "done" => err = "Cancelled"

\* C5: with metadata never resolved and ctx never cancelled, the select blocks
\* until the two-minute timer has fired, then only the timeout case can run,
\* and the fetch ends MetadataTimeout with no DownloadAll, tick or snapshot.
C5_MetadataTimeout ==
    /\ (pc = "await" /\ waited < MetadataTimeout) => ~timerFired
    /\ (pc = "await" /\ ~gotInfo /\ ~ctxDone) =>
          /\ ~ENABLED SelectGotInfo
          /\ ~ENABLED SelectCtxDone
          /\ ENABLED SelectTimeout <=> timerFired
    /\ (pc = "done" /\ Joined /\ ~gotInfo /\ ~ctxDone) =>
          /\ err = "MetadataTimeout"
          /\ waited >= MetadataTimeout
          /\ downloadAll = 0
          /\ ticks = 0
          /\ sinkCalls = 0

\* C5 witness: the deadline ended a fetch that was never cancelled and never
\* got its metadata.
C5_Witness ==
    pc = "done" /\ err = "MetadataTimeout" /\ ~gotInfo /\ ~ctxDone

\* C6: every snapshot taken while the total length is 0 reports 0 percent.
C6_ZeroTotalIsZeroPercent ==
    \A i \in 1..Len(snaps) :
        snaps[i].TotalBytes = 0 => FloatEqInt(snaps[i].PercentDone, 0)

\* C7: every snapshot has 0 <= PercentDone <= 100, and PercentDone does not
\* decrease from one snapshot to the next while bytesCompleted does not.
C7_PercentInRangeAndMonotone ==
    /\ \A i \in 1..Len(snaps) :
          /\ FloatLeq(Fin(0, 1), snaps[i].PercentDone)
          /\ FloatLeq(snaps[i].PercentDone, Fin(100, 1))
    /\ \A i \in 1..Len(snaps) - 1 :
          snaps[i].BytesCompleted <= snaps[i + 1].BytesCompleted =>
              FloatLeq(snaps[i].PercentDone, snaps[i + 1].PercentDone)

\* C8: a successful fetch returns downloadPath/Name for single-file and
\* multi-file torrents alike, and only on a tick that saw the torrent complete.
C8_SuccessPath ==
    /\ err = "nil" =>
          /\ pc = "done"
          /\ ticks >= 1
          /\ sample.complete
          /\ result = downloadPath \o "/" \o info.Name
          /\ (downloadPath = "/downloads" /\ info.Name = "ubuntu.iso")
                => result = "/downloads/ubuntu.iso"
          /\ (downloadPath = "/downloads" /\ info.Name = "pack")
                => result = "/downloads/pack"
    /\ err # "nil" => result = ""
    /\ (ticks >= 1 /\ sample.complete) => err = "nil"

\* C8 witness: a multi-file torrent with two inner files has been fetched.
C8_Witness ==
    /\ pc = "done"
    /\ err = "nil"
    /\ info.Files = 2
    /\ result = "/downloads/pack"

\* C9: the speed reported by a tick that took time is the bytes gained since
\* the previous tick divided by the seconds since it: 1000 bytes in one second
\* is 1000 bytes/second, and no bytes gained is speed 0.
C9_RateIsDeltaBytesOverDeltaTime ==
    (hasCallback /\ ticks >= 1 /\ sample.time > sample.prevTime) =>
        LET speed == LastSnap.DownloadSpeed
            deltaBytes == sample.bytes - sample.prevBytes
            deltaTime == sample.time - sample.prevTime
        IN  /\ speed.k = "fin"
            /\ speed.d # 0
            /\ speed.n * deltaTime = deltaBytes * speed.d
            /\ (deltaBytes = 1000 /\ deltaTime = 1) => FloatEqInt(speed, 1000)
            /\ deltaBytes = 0 => FloatEqInt(speed, 0)

\* C9 witness: 1000 bytes arrived in the first second, then a later tick saw
\* no further bytes.
C9_Witness ==
    /\ sinkCalls = 2
    /\ snaps[1].BytesCompleted = 1000
    /\ FloatEqInt(snaps[1].DownloadSpeed, 1000)
    /\ sample.prevBytes = 1000
    /\ sample.prevTime = 1
    /\ sample.bytes = 1000
    /\ sample.time > sample.prevTime
    /\ FloatEqInt(snaps[2].DownloadSpeed, 0)

\* C10: a failed AddMagnet ends the fetch at once with JoinError: AddMagnet is
\* called once, and no metadata wait, DownloadAll, tick or snapshot follows.
C10_JoinErrorIsTerminal ==
    /\ [](/\ joinCalls <= 1
          /\ err = "JoinError" =>
                /\ pc = "done"
                /\ joinCalls = 1
                /\ ~handleOpen
                /\ waited = 0
                /\ ~timerFired
                /\ downloadAll = 0
                /\ ~tickerOn
                /\ ticks = 0
                /\ sinkCalls = 0)
    /\ [][(joinCalls' # joinCalls /\ ~handleOpen') =>
              (pc' = "done" /\ err' = "JoinError" /\ result' = "")]_vars

\* C10 witness: AddMagnet failed and the fetch has returned.
C10_Witness == pc = "done" /\ err = "JoinError" /\ joinCalls = 1

\* C12: a cancellation that arrives while the loop is blocked between ticks
\* ends the fetch Cancelled with no further tick, and with ctx cancelled and
\* no tick pending the loop can return, and can only return, Cancelled: it
\* does not need a tick to fire first.
C12_CancelPreemptsTickWait ==
    /\ (pc = "loop" /\ ctxDone /\ ~tickPending) =>
          (ENABLED LoopCtxDone /\ ~ENABLED LoopTick)
    /\ (cancelAt.pc = "loop" /\ cancelAt.parked) =>
          /\ ticks = cancelAt.ticks
          /\ pc = "loop" => (sel = "done" /\ ~ENABLED LoopTick)
          /\ pc = "done" => err = "Cancelled"

\* C12 witness: the loop was blocked with no tick pending when ctx was
\* cancelled, and the fetch has returned Cancelled without another tick.
C12_Witness ==
    /\ cancelAt.pc = "loop"
    /\ cancelAt.parked
    /\ cancelAt.ticks = 1
    /\ pc = "done"
    /\ err = "Cancelled"
    /\ ~tickPending

\* C13: every processed tick samples, delivers one snapshot of that sample to
\* the callback when there is one, also when no bytes arrived, and only then
\* decides completion: the completing tick has delivered its snapshot too.
C13_TickSamplesDeliversThenChecks ==
    /\ sinkCalls = IF hasCallback THEN ticks ELSE 0
    /\ (hasCallback /\ ticks >= 1) =>
          /\ LastSnap.tick = ticks
          /\ LastSnap.BytesCompleted = sample.bytes
          /\ LastSnap.TotalBytes = info.Length
    /\ ticks >= 1 => (sample.complete <=> err = "nil")
    /\ err = "nil" => pc = "done"

\* C13 witness: the completing tick saw no new bytes and still delivered the
\* second snapshot before the fetch returned its path.
C13_Witness ==
    /\ hasCallback
    /\ sinkCalls = 2
    /\ sample.bytes = sample.prevBytes
    /\ LastSnap.tick = 2
    /\ err = "nil"

\* C14: DownloadAll is called at most once, by the step that leaves the
\* metadata wait with the metadata resolved; a fetch that returns from the
\* join or from the wait never called it, and no tick precedes it.
C14_TransferStartedOnceAfterMetadata ==
    /\ [](/\ downloadAll <= 1
          /\ downloadAll = 1 => gotInfo
          /\ pc \in {"join", "await"} => downloadAll = 0
          /\ pc = "loop" => downloadAll = 1
          /\ ticks >= 1 => downloadAll = 1
          /\ err \in {"JoinError", "MetadataTimeout"} => downloadAll = 0)
    /\ [][/\ (pc = "await" /\ pc' = "done") => downloadAll' = 0
          /\ downloadAll' # downloadAll =>
                (pc = "await" /\ pc' = "loop" /\ gotInfo /\ ticks = 0)]_vars

\* C14 witness: a fetch that started its transfer once and ran two ticks.
C14_Witness == pc = "done" /\ downloadAll = 1 /\ gotInfo /\ ticks = 2

\* C15: the transfer has no deadline: the loop returns only with the path of
\* a completed torrent or Cancelled after a cancellation, a tick without
\* progress leaves the fetch running, and without a cancellation only ticks
\* can make the loop proceed.
C15_NoTransferDeadline ==
    /\ (pc = "done" /\ downloadAll >= 1) =>
          \/ err = "nil" /\ sample.complete
          \/ err = "Cancelled" /\ ctxDone
    /\ pc = "loop" => (err = "none" /\ outcomes = 0)
    /\ (pc = "loop" /\ ~ctxDone) => ~ENABLED LoopCtxDone
    /\ (pc = "loop" /\ ~ctxDone /\ tickPending) => ENABLED LoopTick

\* C15 witness: three ticks in a row saw no bytes and the fetch is still
\* transferring.
C15_Witness ==
    /\ pc = "loop"
    /\ ~ctxDone
    /\ ticks = 3
    /\ sample.bytes = 0
    /\ sample.prevBytes = 0

\* C16: a tick whose deltaTime is <= 0 leaves the rate alone: its snapshot
\* carries the finite rate of the previous snapshot.
C16_ZeroDeltaTimeKeepsRate ==
    (hasCallback /\ sinkCalls >= 2 /\ sample.time <= sample.prevTime) =>
        LET speed == LastSnap.DownloadSpeed
            previous == snaps[Len(snaps) - 1].DownloadSpeed
        IN  /\ speed.k = "fin"
            /\ FloatLeq(speed, previous)
            /\ FloatLeq(previous, speed)

\* C11: concurrent fetches own different swarm handles, and what one fetch
\* does leaves the handle of another alone: a fetch still waiting for its
\* metadata has a handle whose transfer nobody has started, also for two
\* fetches on one TorrentDownloader or for one magnet.
C11_IndependentFetches ==
    /\ \A f, g \in Fetches :
          (f # g /\ calls[f].handle # NoHandle /\ calls[g].handle # NoHandle)
              => calls[f].handle # calls[g].handle
    /\ \A f \in Fetches :
          calls[f].pc = "await" => ~torrents[calls[f].handle].downloading

\* C17: the completion callback of a download marks the search result whose
\* button was tapped, whatever a later search did to the list: it never marks
\* an entry of another list and never indexes past the end of Results.
C17_CompletionMarksTappedResult ==
    /\ ~panicked
    /\ \A d \in 1..Len(downloads) : downloads[d].mark \in {"none", "own"}

Stuck(d) ==
    /\ d <= Len(downloads)
    /\ downloads[d].pc = "ended"
    /\ ~panicked
    /\ listGen = downloads[d].gen
    /\ searchResult.Results[downloads[d].id].IsDownloading
    /\ ~searchResult.Results[downloads[d].id].IsDownloaded

\* C18: once the goroutine of a download has ended, with the path or with an
\* error of NewTorrentDownloader or of DownloadFromMagnet, its search result
\* is eventually IsDownloaded or no longer IsDownloading.
C18_DownloadingEventuallyCleared ==
    \A d \in 1..MaxDownloads : [](Stuck(d) => <>(~Stuck(d)))

SearchResultWellFormed ==
    /\ searchResult.Total = Len(searchResult.Results)
    /\ \A i \in 1..Len(searchResult.Results) :
          searchResult.Results[i].MagnetUri # ""

\* C19: searchResult always has Total = len(Results) and only entries with a
\* non-empty MagnetUri; a search callback installs the response without its
\* entries that have no magnet, and a failed search leaves searchResult as it
\* was.
C19_SearchResultWellFormed ==
    /\ []SearchResultWellFormed
    /\ [][RunSearchDone =>
             searchResult' = FetchSearchResults(Head(uiQueue).raw)]_vars
    /\ [][RunSearchFailed => searchResult' = searchResult]_vars

\* A response with a row without magnet and a row with one has been installed
\* without the former, and another search has failed and had its callback run.
C19_Witness ==
    /\ Len(lastRaw) > Len(searchResult.Results)
    /\ Len(searchResult.Results) > 0
    /\ searchCount = MaxSearches
    /\ searching = 0
    /\ uiQueue = <<>>
    /\ listGen = 1

====
